---- MODULE Spec2Model ----
(***************************************************************************)
(* Model of toml-diff: TomlDiff::diff (src/src/lib.rs) and the Display     *)
(* implementation with format_change (src/src/display.rs).                 *)
(***************************************************************************)
EXTENDS Integers, Sequences, FiniteSets, TLC

\* a, b          the two documents handed to diff (a is "new", b is "old")
\* pc            position of the call: entry, loop, walk, returned, panicked,
\*               aborted; fmt, fmt_ok for Display::fmt
\* err           the message of the panic or abort that ended the call
\* stack         the work stack of pending pairs
\* changes       the change list built so far (self.changes for Display::fmt)
\* a_elems_it,   the two sorted peekable iterators of the current table pair,
\* b_elems_it    each as the sequence of entries still to come
\* f             the text written to the formatter
\* first         the outcome of diff(a, b) kept while diff(b, a) runs
\* serializer    what toml::to_string of the linked toml crate does with a value
\*               that is not a table: "text" (it returns the text of the
\*               value) or "unsupported" (it returns Err(UnsupportedType))
VARIABLES a, b, pc, err, stack, changes, a_elems_it, b_elems_it, f, first, serializer

vars == <<a, b, pc, err, stack, changes, a_elems_it, b_elems_it, f, first, serializer>>

(* ---------------------------------------------------------------------- *)
(* Bounds                                                                  *)
(* ---------------------------------------------------------------------- *)
\* the number of records the `changes` vector can grow to before memory runs out
MaxChanges == 4
\* the number of pairs the work stack can grow to before memory runs out
MaxStack == 3
\* longest change list handed to Display::fmt
MaxFmtLen == 2

(* ---------------------------------------------------------------------- *)
(* toml::Value                                                             *)
(* ---------------------------------------------------------------------- *)
NL == "\n"

String(s) == [kind |-> "String", val |-> s]
Integer(n) == [kind |-> "Integer", val |-> n]
Array(s) == [kind |-> "Array", val |-> s]
Table(t) == [kind |-> "Table", val |-> t]

\* a discriminant that does not tell an Array from a Table
discriminant_containers_merged(v) ==
    IF v.kind \in {"Array", "Table"} THEN "Container" ELSE v.kind
discriminant(v) == v.kind
is_array(v) == v.kind = "Array"
is_table(v) == v.kind = "Table"

\* table keys; KeyRank is their position in the lexicographic order of String
Keys == {"a", "b", "c"}
KeyRank(k) == CASE k = "a" -> 1 [] k = "b" -> 2 [] k = "c" -> 3
KeyLess(k1, k2) == KeyRank(k1) < KeyRank(k2)

RECURSIVE Iter(_)
\* Map::iter(): the entries (key, value) of a table, in the map's (ascending key) order
Iter(t) ==
    IF DOMAIN t = {} THEN <<>>
    ELSE LET k == CHOOSE x \in DOMAIN t : \A y \in DOMAIN t : ~KeyLess(y, x)
         IN <<<<k, t[k]>>>> \o Iter([y \in DOMAIN t \ {k} |-> t[y]])

RECURSIVE InsertByKey(_, _)
InsertByKey(e, s) ==
    IF s = <<>> THEN <<e>>
    ELSE IF KeyLess(e[1], Head(s)[1]) THEN <<e>> \o s
    ELSE <<Head(s)>> \o InsertByKey(e, Tail(s))

RECURSIVE SortByKey(_)
\* Vec::sort_by_key(|e| e.0): stable sort of the entries by key
SortByKey(s) ==
    IF s = <<>> THEN <<>>
    ELSE InsertByKey(s[Len(s)], SortByKey(SubSeq(s, 1, Len(s) - 1)))

(* ---------------------------------------------------------------------- *)
(* TomlChange                                                              *)
(* ---------------------------------------------------------------------- *)
None == <<>>
Some(x) == <<x>>

Same == [tag |-> "Same"]
Added(key, val) == [tag |-> "Added", key |-> key, val |-> val]
Deleted(key, val) == [tag |-> "Deleted", key |-> key, val |-> val]
Changed(key, val_a, val_b) == [tag |-> "Changed", key |-> key, val_a |-> val_a, val_b |-> val_b]

(* ---------------------------------------------------------------------- *)
(* Input documents                                                         *)
(* ---------------------------------------------------------------------- *)
Scalars == {String(<<"x">>), String(<<"x", NL, "y">>), Integer(1)}
Arrays == {Array(<<Integer(1)>>), Array(<<Integer(1), Integer(2)>>), Array(<<Integer(1), Integer(2), Integer(3)>>)}
InnerTables == {Table("b" :> Integer(2)), Table("c" :> Integer(3))}
OuterTables == {Table("b" :> Table("b" :> Integer(2))), Table("c" :> Table("c" :> Integer(3)))}
Values == Scalars \cup Arrays \cup InnerTables \cup OuterTables

TopKeys == {"a", "b"}
TopTables == {Table(t) : t \in UNION {[D -> Values] : D \in SUBSET TopKeys}}
Docs == TopTables \cup {Integer(1), Array(<<Integer(1)>>)}

(* ---------------------------------------------------------------------- *)
(* TomlDiff::diff                                                          *)
(* ---------------------------------------------------------------------- *)
RECURSIVE ZipCompare(_, _, _, _)
\* the `for (a_elem, b_elem) in a_it.by_ref().zip(b_it.by_ref())` loop:
\* the changes and the stack after the common prefix has been compared
ZipCompare(a_vec, b_vec, chg, stk) ==
    IF a_vec = <<>> \/ b_vec = <<>> THEN [changes |-> chg, stack |-> stk]
    ELSE LET a_elem == Head(a_vec)
             b_elem == Head(b_vec)
         IN IF a_elem = b_elem
            THEN ZipCompare(Tail(a_vec), Tail(b_vec), chg, stk)
            ELSE IF discriminant(a_elem) # discriminant(b_elem)
            THEN ZipCompare(Tail(a_vec), Tail(b_vec),
                            Append(chg, Changed(None, a_elem, b_elem)), stk)
            ELSE IF is_table(a_elem) \/ is_array(a_elem)
            THEN ZipCompare(Tail(a_vec), Tail(b_vec), chg,
                            Append(stk, <<a_elem, b_elem>>))
            ELSE ZipCompare(Tail(a_vec), Tail(b_vec),
                            Append(chg, Changed(None, a_elem, b_elem)), stk)

\* the two behaviours of toml::to_string on a value that is not a table
Serializers == {"text", "unsupported"}

Init ==
    /\ a \in Docs
    /\ b \in Docs
    /\ pc = "entry"
    /\ err = "none"
    /\ stack = <<>>
    /\ changes = <<>>
    /\ a_elems_it = <<>>
    /\ b_elems_it = <<>>
    /\ f = <<>>
    /\ first = None
    /\ serializer \in Serializers

\* the top-level match and the construction of `changes` and `stack`
Enter ==
    /\ pc = "entry"
    /\ IF is_table(a) /\ is_table(b)
       THEN /\ pc' = "loop"
            /\ err' = err
            /\ stack' = <<<<a, b>>>>
       ELSE /\ pc' = "panicked"
            /\ err' = "Expected a table at the top level"
            /\ stack' = stack
    /\ changes' = <<>>
    /\ UNCHANGED <<a, b, a_elems_it, b_elems_it, f, first, serializer>>

\* `while let Some((a, b)) = stack.pop()`: the loop head and, for a pair of
\* arrays, the whole array branch; for a pair of tables, the set-up of the
\* two sorted peekable iterators
Pop ==
    /\ pc = "loop"
    /\ IF stack = <<>>
       THEN /\ pc' = "returned"
            /\ UNCHANGED <<err, stack, changes, a_elems_it, b_elems_it>>
       ELSE LET top == stack[Len(stack)]
                rest == SubSeq(stack, 1, Len(stack) - 1)
            IN IF is_array(top[1])
               THEN IF ~is_array(top[2])
                    THEN /\ pc' = "panicked"
                         /\ err' = "unwrap on None"
                         /\ stack' = rest
                         /\ UNCHANGED <<changes, a_elems_it, b_elems_it>>
                    ELSE LET r == ZipCompare(top[1].val, top[2].val, changes, rest)
                         IN /\ changes' = r.changes
                            /\ stack' = r.stack
                            /\ pc' = "panicked"
                            /\ err' = "todo: Process the leftovers if the arrays have different lengths"
                            /\ UNCHANGED <<a_elems_it, b_elems_it>>
               ELSE IF ~is_table(top[1]) \/ ~is_table(top[2])
                    THEN /\ pc' = "panicked"
                         /\ err' = "unwrap on None"
                         /\ stack' = rest
                         /\ UNCHANGED <<changes, a_elems_it, b_elems_it>>
                    ELSE /\ a_elems_it' = SortByKey(Iter(top[1].val))
                         /\ b_elems_it' = SortByKey(Iter(top[2].val))
                         /\ stack' = rest
                         /\ pc' = "walk"
                         /\ UNCHANGED <<err, changes>>
    /\ UNCHANGED <<a, b, f, first, serializer>>

\* the body of one iteration of the merge-walk loop: the changes, the stack
\* and the two iterators after it
WalkIteration(chg, stk, a_it, b_it) ==
    LET a_key == Head(a_it)[1]
        a_val == Head(a_it)[2]
        b_key == Head(b_it)[1]
        b_val == Head(b_it)[2]
        same == [changes |-> chg, stack |-> stk, a_elems_it |-> a_it, b_elems_it |-> b_it]
    IN IF KeyLess(a_key, b_key)
       THEN [same EXCEPT !.changes = Append(chg, Added(a_key, a_val)),
                         !.a_elems_it = Tail(a_it)]
       ELSE IF KeyLess(b_key, a_key)
       THEN [same EXCEPT !.changes = Append(chg, Deleted(b_key, b_val)),
                         !.b_elems_it = Tail(b_it)]
       ELSE IF a_val = b_val
       THEN same
       ELSE IF discriminant(a_val) # discriminant(b_val)
       THEN [same EXCEPT !.changes = Append(chg, Changed(Some(a_key), a_val, b_val))]
       ELSE IF is_table(a_val) \/ is_array(a_val)
       THEN [same EXCEPT !.stack = Append(stk, <<a_val, b_val>>)]
       ELSE [same EXCEPT !.changes = Append(chg, Changed(Some(a_key), a_val, b_val))]

\* one iteration of the `while let (Some(..), Some(..)) = (peek(), peek())`
\* loop. A push that would take `changes` beyond MaxChanges or `stack` beyond
\* MaxStack is the push whose allocation fails: the process aborts.
WalkStep ==
    /\ pc = "walk"
    /\ a_elems_it # <<>>
    /\ b_elems_it # <<>>
    /\ LET r == WalkIteration(changes, stack, a_elems_it, b_elems_it)
       IN IF Len(r.changes) > MaxChanges \/ Len(r.stack) > MaxStack
          THEN /\ pc' = "aborted"
               /\ err' = "memory allocation failed"
               /\ UNCHANGED <<changes, stack, a_elems_it, b_elems_it>>
          ELSE /\ changes' = r.changes
               /\ stack' = r.stack
               /\ a_elems_it' = r.a_elems_it
               /\ b_elems_it' = r.b_elems_it
               /\ UNCHANGED <<pc, err>>
    /\ UNCHANGED <<a, b, f, first, serializer>>

\* the merge-walk loop ends (one iterator is exhausted) and control reaches
\* `todo!("Handle left-over key-value pairs")`
WalkEnd ==
    /\ pc = "walk"
    /\ (a_elems_it = <<>> \/ b_elems_it = <<>>)
    /\ pc' = "panicked"
    /\ err' = "todo: Handle left-over key-value pairs"
    /\ UNCHANGED <<a, b, stack, changes, a_elems_it, b_elems_it, f, first, serializer>>

\* a caller that has seen diff(a, b) end calls diff(b, a): the outcome of the
\* first call is kept in `first` and the call starts again with the arguments swapped
DiffSwapped ==
    /\ pc \in {"returned", "panicked"}
    /\ first = None
    /\ first' = Some([pc |-> pc, err |-> err, changes |-> changes])
    /\ a' = b
    /\ b' = a
    /\ pc' = "entry"
    /\ err' = "none"
    /\ stack' = <<>>
    /\ changes' = <<>>
    /\ a_elems_it' = <<>>
    /\ b_elems_it' = <<>>
    /\ UNCHANGED <<f, serializer>>

Next == Enter \/ Pop \/ WalkStep \/ WalkEnd

Spec == Init /\ [][Next]_vars

NextSwapped == Enter \/ Pop \/ WalkStep \/ WalkEnd \/ DiffSwapped

SpecSwapped == Init /\ [][NextSwapped]_vars

(* ---------------------------------------------------------------------- *)
(* Display for TomlDiff                                                    *)
(* ---------------------------------------------------------------------- *)
\* text is a sequence of fragments; the fragment NL ends a line.
\* A formatting result is [ok, f, err]: f is the text written to the
\* formatter so far, ok is FALSE when a panic ended the formatting, err is
\* the message of that panic.

Digits == <<"0", "1", "2", "3", "4", "5", "6", "7", "8", "9">>
RECURSIVE DecimalText(_)
\* an integer in decimal
DecimalText(n) ==
    IF n < 0 THEN "-" \o DecimalText(0 - n)
    ELSE IF n < 10 THEN Digits[n + 1]
    ELSE DecimalText(n \div 10) \o Digits[(n % 10) + 1]

RECURSIVE CanonicalText(_)
RECURSIVE JoinArray(_)
\* the canonical text of a value that is not a table: `"def"` for a string,
\* `[1, 2, 3]` for an array, the decimal digits for an integer
CanonicalText(val) ==
    IF val.kind = "String" THEN <<"\"">> \o val.val \o <<"\"">>
    ELSE IF val.kind = "Integer" THEN <<DecimalText(val.val)>>
    ELSE <<"[">> \o JoinArray(val.val) \o <<"]">>
JoinArray(elems) ==
    IF elems = <<>> THEN <<>>
    ELSE IF Len(elems) = 1 THEN CanonicalText(elems[1])
    ELSE CanonicalText(elems[1]) \o <<", ">> \o JoinArray(Tail(elems))

\* toml::to_string(val), the value serialization collaborator, on a value
\* that is not a table: Ok(the canonical text) or Err(UnsupportedType),
\* as the linked toml crate decides
to_string(val) ==
    IF serializer = "unsupported"
    THEN [ok |-> FALSE, err |-> "UnsupportedType", text |-> <<>>]
    ELSE [ok |-> TRUE, err |-> "none", text |-> CanonicalText(val)]

RECURSIVE format_entries(_, _, _)
RECURSIVE format_change(_, _, _, _)
\* format_change writing to the formatter that holds `out`; the unwrap() of
\* an Err from toml::to_string is a panic with nothing of the line written
format_change(out, prefix, key, val) ==
    IF val.kind = "String"
    THEN [ok |-> TRUE, err |-> "none",
          f |-> out \o <<prefix, " ", key, " = ", "\"">> \o val.val \o <<"\"", NL>>]
    ELSE IF val.kind = "Table"
    THEN format_entries(out \o <<prefix, " [", key, "]", NL>>, prefix, Iter(val.val))
    ELSE LET serialized == to_string(val)
         IN IF serialized.ok
            THEN [ok |-> TRUE, err |-> "none",
                  f |-> out \o <<prefix, " ", key, " = ">> \o serialized.text \o <<NL>>]
            ELSE [ok |-> FALSE, err |-> "unwrap on Err: " \o serialized.err, f |-> out]

\* `for (key, val) in table { format_change(f, prefix, key, val)?; }`
format_entries(out, prefix, entries) ==
    IF entries = <<>> THEN [ok |-> TRUE, err |-> "none", f |-> out]
    ELSE LET r == format_change(out, prefix, Head(entries)[1], Head(entries)[2])
         IN IF r.ok THEN format_entries(r.f, prefix, Tail(entries)) ELSE r

RECURSIVE fmt(_, _)
\* Display::fmt: the loop over self.changes writing to the formatter that
\* holds `out`; the Changed arm is todo!()
fmt(chs, out) ==
    IF chs = <<>> THEN [ok |-> TRUE, err |-> "none", f |-> out]
    ELSE LET change == Head(chs)
         IN IF change.tag = "Same" THEN fmt(Tail(chs), out)
            ELSE IF change.tag \in {"Added", "Deleted"}
            THEN LET r == format_change(out, IF change.tag = "Added" THEN "+" ELSE "-",
                                        change.key, change.val)
                 IN IF r.ok THEN fmt(Tail(chs), r.f) ELSE r
            ELSE [ok |-> FALSE, err |-> "todo", f |-> out]

\* the change lists handed to Display::fmt: records over the values of the
\* documents, keyed records in the ascending key order in which the
\* merge-walk appends them
FmtValues ==
    { String(<<"x">>), String(<<"x", NL, "y">>), Integer(2),
      Array(<<Integer(1), Integer(2)>>),
      Table("b" :> String(<<"x">>) @@ "c" :> Integer(3)),
      Table("b" :> Table("c" :> Integer(3))) }
FmtChanges ==
    {Same} \cup {Added(k, v) : k \in TopKeys, v \in FmtValues}
           \cup {Deleted(k, v) : k \in TopKeys, v \in FmtValues}
           \cup {Changed(Some(k), String(<<"x">>), Integer(2)) : k \in TopKeys}
FmtKeyRank(change) ==
    IF change.tag = "Same" THEN 0
    ELSE IF change.tag = "Changed" THEN KeyRank(change.key[1])
    ELSE KeyRank(change.key)
FmtChangeLists ==
    {l \in UNION {[1..n -> FmtChanges] : n \in 0..MaxFmtLen} :
        \A i, j \in 1..Len(l) :
            (i < j /\ l[i].tag # "Same" /\ l[j].tag # "Same")
                => FmtKeyRank(l[i]) <= FmtKeyRank(l[j])}

InitFmt ==
    /\ a = Table(<<>>)
    /\ b = Table(<<>>)
    /\ pc = "fmt"
    /\ err = "none"
    /\ stack = <<>>
    /\ changes \in FmtChangeLists
    /\ a_elems_it = <<>>
    /\ b_elems_it = <<>>
    /\ f = <<>>
    /\ first = None
    /\ serializer \in Serializers

\* diff.to_string(): Display::fmt over the whole change list
Display ==
    /\ pc = "fmt"
    /\ LET r == fmt(changes, <<>>)
       IN /\ f' = r.f
          /\ pc' = IF r.ok THEN "fmt_ok" ELSE "panicked"
          /\ err' = IF r.ok THEN err ELSE r.err
    /\ UNCHANGED <<a, b, stack, changes, a_elems_it, b_elems_it, first, serializer>>

NextFmt == Display

SpecFmt == InitFmt /\ [][NextFmt]_vars

(* ---------------------------------------------------------------------- *)
(* Properties                                                              *)
(* ---------------------------------------------------------------------- *)
Ended == pc \in {"returned", "panicked", "aborted"}
BothTables == a.kind = "Table" /\ b.kind = "Table"

\* number of positions of the sequence s that hold x
Count(s, x) == Cardinality({i \in 1..Len(s) : s[i] = x})

RECURSIVE Lines(_)
\* the lines of a text: the runs of fragments between line ends
Lines(text) ==
    IF text = <<>> THEN <<>>
    ELSE IF \E i \in 1..Len(text) : text[i] = NL
    THEN LET i == CHOOSE j \in 1..Len(text) :
                      text[j] = NL /\ \A h \in 1..(j - 1) : text[h] # NL
         IN <<SubSeq(text, 1, i - 1)>> \o Lines(SubSeq(text, i + 1, Len(text)))
    ELSE <<text>>

IsPrefixOf(s, t) == Len(s) <= Len(t) /\ SubSeq(t, 1, Len(s)) = s

\* C1: once diff(a, b) on two tables has ended, its change list holds exactly
\* one Added(key, a[key]) for every key of a that b lacks and exactly one
\* Deleted(key, b[key]) for every key of b that a lacks.
C1_AddedDeletedComplete ==
    (Ended /\ BothTables) =>
        /\ \A k \in DOMAIN a.val \ DOMAIN b.val : Count(changes, Added(k, a.val[k])) = 1
        /\ \A k \in DOMAIN b.val \ DOMAIN a.val : Count(changes, Deleted(k, b.val[k])) = 1

ChangeKey(change) == IF change.tag = "Changed" THEN change.key[1] ELSE change.key

\* C2: the keys of the Added/Deleted/Changed records appended by a table-level
\* comparison are in strictly ascending lexicographic order.
C2_KeysStrictlyAscending ==
    \A i, j \in 1..Len(changes) :
        (i < j /\ changes[i].tag # "Same" /\ changes[j].tag # "Same")
            => KeyLess(ChangeKey(changes[i]), ChangeKey(changes[j]))

\* C3: diff(x, x) on a table x ends by returning a change list that holds only
\* Same entries (or none) and that renders to the empty string.
C3_ReflexiveEmpty ==
    (BothTables /\ a = b /\ Ended) =>
        /\ pc = "returned"
        /\ \A i \in 1..Len(changes) : changes[i].tag = "Same"
        /\ fmt(changes, <<>>).ok
        /\ fmt(changes, <<>>).f = <<>>

\* C4: every iteration of the merge-walk advances at least one of the two key
\* pointers, and the call fails for no reason other than a non-table root.
C4_AdvancesAndTotal ==
    /\ [][(pc = "walk" /\ pc' = "walk")
            => (Len(a_elems_it') < Len(a_elems_it) \/ Len(b_elems_it') < Len(b_elems_it))]_vars
    /\ [](pc \in {"panicked", "aborted"} => err = "Expected a table at the top level")

\* a key k holds a table on both sides and the sub-key s is on one side only
NestedOnlyOld(k, s) ==
    /\ k \in DOMAIN a.val \cap DOMAIN b.val
    /\ a.val[k].kind = "Table" /\ b.val[k].kind = "Table"
    /\ s \in DOMAIN b.val[k].val \ DOMAIN a.val[k].val
NestedOnlyNew(k, s) ==
    /\ k \in DOMAIN a.val \cap DOMAIN b.val
    /\ a.val[k].kind = "Table" /\ b.val[k].kind = "Table"
    /\ s \in DOMAIN a.val[k].val \ DOMAIN b.val[k].val
\* C5: when a key holds unequal tables in both documents, diff compares the
\* sub-tables: by the time the call ends, a sub-key found only in the old table
\* has been reported as Deleted and one found only in the new table as Added.
C5_NestedTablesCompared ==
    (Ended /\ BothTables) =>
        \A k \in TopKeys, s \in Keys :
            /\ NestedOnlyOld(k, s) =>
                 \E i \in 1..Len(changes) :
                     changes[i].tag = "Deleted" /\ changes[i].val = b.val[k].val[s]
            /\ NestedOnlyNew(k, s) =>
                 \E i \in 1..Len(changes) :
                     changes[i].tag = "Added" /\ changes[i].val = a.val[k].val[s]

RECURSIVE ClaimedLineStarts(_, _, _)
RECURSIVE ClaimedEntryStarts(_, _)
\* the lines the rendering of (prefix, key, val) is made of, each given by
\* the fragments it starts with: `<prefix> [<key>]` and then the lines of the
\* entries for a table, the single line `<prefix> <key> = ...` otherwise
ClaimedLineStarts(prefix, key, val) ==
    IF val.kind = "Table"
    THEN <<<<prefix, " [", key, "]">>>> \o ClaimedEntryStarts(prefix, Iter(val.val))
    ELSE <<<<prefix, " ", key, " = ">>>>
ClaimedEntryStarts(prefix, entries) ==
    IF entries = <<>> THEN <<>>
    ELSE ClaimedLineStarts(prefix, Head(entries)[1], Head(entries)[2])
             \o ClaimedEntryStarts(prefix, Tail(entries))

RECURSIVE ClaimedStartsOf(_)
ClaimedStartsOf(chs) ==
    IF chs = <<>> THEN <<>>
    ELSE LET change == Head(chs)
         IN (IF change.tag = "Added" THEN ClaimedLineStarts("+", change.key, change.val)
             ELSE IF change.tag = "Deleted" THEN ClaimedLineStarts("-", change.key, change.val)
             ELSE <<>>) \o ClaimedStartsOf(Tail(chs))

\* C6: the rendering of a change list of Same/Added/Deleted records ends
\* without a panic; it has nothing for Same and, for Added/Deleted, lines that
\* all start with + / -: a header line `<prefix> [<key>]` and the lines of the
\* entries for a table, one line `<prefix> <key> = <value>` for any other value.
C6_RenderedLines ==
    (pc \in {"fmt_ok", "panicked"} /\ \A i \in 1..Len(changes) : changes[i].tag # "Changed") =>
        LET ls == Lines(f)
            starts == ClaimedStartsOf(changes)
        IN /\ pc = "fmt_ok"
           /\ Len(ls) = Len(starts)
           /\ \A i \in 1..Len(ls) :
                /\ IsPrefixOf(starts[i], ls[i])
                /\ (starts[i][2] = " [" => ls[i] = starts[i])

SwapPrefix(p) == IF p = "+" THEN "-" ELSE IF p = "-" THEN "+" ELSE p
SwappedLines(ls1, ls2) ==
    /\ Len(ls1) = Len(ls2)
    /\ \A i \in 1..Len(ls1) :
         /\ ls1[i] # <<>> /\ ls2[i] # <<>>
         /\ Head(ls2[i]) = SwapPrefix(Head(ls1[i]))
         /\ Tail(ls2[i]) = Tail(ls1[i])

\* C7: for two tables, diff(a, b) and diff(b, a) both return, both render,
\* and the two texts agree line for line except that + and - are exchanged.
C7_SwapSymmetric ==
    (first # None /\ Ended /\ BothTables) =>
        /\ first[1].pc = "returned"
        /\ pc = "returned"
        /\ fmt(first[1].changes, <<>>).ok
        /\ fmt(changes, <<>>).ok
        /\ SwappedLines(Lines(fmt(first[1].changes, <<>>).f), Lines(fmt(changes, <<>>).f))

\* C8: a key of both tables whose values are unequal and of different kinds,
\* or unequal scalars of one kind, gets exactly one Changed record, with the
\* value of old_doc (b) first and the value of new_doc (a) second.
C8_ChangedOnceOldNew ==
    \A i \in 1..Len(changes) :
        changes[i].tag = "Changed" =>
            /\ changes[i].key # None
            /\ changes[i].val_a = b.val[changes[i].key[1]]
            /\ changes[i].val_b = a.val[changes[i].key[1]]
            /\ \A j \in 1..Len(changes) :
                 (changes[j].tag = "Changed" /\ changes[j].key = changes[i].key) => j = i

\* C9: when a key holds arrays of different lengths in the two documents,
\* by the time the call ends diff has reported every trailing element of the
\* longer array: as Added when it is the new one, as Deleted when the old.
C9_ArrayLeftovers ==
    (Ended /\ BothTables) =>
        \A k \in DOMAIN a.val \cap DOMAIN b.val :
            (a.val[k].kind = "Array" /\ b.val[k].kind = "Array") =>
                LET a_vec == a.val[k].val
                    b_vec == b.val[k].val
                IN /\ \A n \in (Len(b_vec) + 1)..Len(a_vec) :
                        \E i \in 1..Len(changes) :
                            changes[i].tag = "Added" /\ changes[i].val = a_vec[n]
                   /\ \A n \in (Len(a_vec) + 1)..Len(b_vec) :
                        \E i \in 1..Len(changes) :
                            changes[i].tag = "Deleted" /\ changes[i].val = b_vec[n]

\* C10: every pair on the work stack is two Tables or two Arrays, and no
\* as_array() / as_table() unwrap of a popped pair has failed.
C10_StackPairsSameContainer ==
    /\ \A i \in 1..Len(stack) :
          \/ stack[i][1].kind = "Table" /\ stack[i][2].kind = "Table"
          \/ stack[i][1].kind = "Array" /\ stack[i][2].kind = "Array"
    /\ err # "unwrap on None"

\* the merge-walk has pushed a pair of unequal arrays onto the work stack
C10_Witness ==
    /\ pc = "walk"
    /\ \E i \in 1..Len(stack) : stack[i][1].kind = "Array" /\ stack[i][1] # stack[i][2]

====
